---- MODULE Spec2Model ----
(***************************************************************************)
(* Model of the client-side interaction layer of codewave-designs          *)
(* (src/js/script.js): the event log kept in localStorage by               *)
(* Analytics.sendEvent, the page initializer, the form validator and the   *)
(* mobile menu.                                                            *)
(***************************************************************************)
EXTENDS Integers, Sequences, FiniteSets, TLC

\* ------------------------------------------------------------------------
\* Bounds of the model
\* ------------------------------------------------------------------------

\* sendEvent calls made in one behaviour of SpecLog
MaxSends == 52

\* the first MaxVaried sendEvent calls of SpecLog draw their event name from
\* every tracker; later calls come from the click tracker
MaxVaried == 1

\* sendEvent calls made in one behaviour of SpecMenu
MaxClicks == 3

\* length of a stored array longer than the cap (written by another script
\* of the origin)
OversizeLen == 53

\* the last instant of the clock
MaxTime == 1500

\* the most events or wrapper calls of one behaviour
MaxCalls == 4

\* the most notifications of one behaviour
MaxBanners == 2

\* the most intersecting notifications the observer delivers for the counter
MaxNotified == 3

\* the most records the click, media and menu handlers add while handlers and
\* timers interleave; the scroll timer adds its records beyond this
MaxLogged == 3

\* the largest scroll position of the document
MaxScrollY == 1000

\* ------------------------------------------------------------------------
\* Program constants
\* ------------------------------------------------------------------------

\* events.slice(-50)
LogCap == 50

\* the delay of the scroll tracker's timer, in ms
ScrollDelay == 500

\* showNotification: the delay before 'show' is added, and the time between
\* the removal of 'show' and the removal of the element, in ms
RevealDelay == 10
RemoveGrace == 300

\* animateCounter: the duration used when data-duration gives none, and the
\* period of the interval timer, in ms
DefaultDuration == 2000
TickMs == 16

\* scrollToElement: the offset kept above the target
HeaderOffset == 80

\* ------------------------------------------------------------------------
\* State
\* ------------------------------------------------------------------------

VARIABLES
  stored,      \* value of localStorage['codewave_events']
  startStore,  \* (history) the value of stored in the initial state
  sent,        \* (history) the records passed to sendEvent, in call order
  loaded,      \* "loading" | "ready" | "aborted": the DOMContentLoaded handler
  err,         \* error raised by the last operation: "none" or its name
  lastOp,      \* (history) name of the last operation
  before,      \* (history) the state the last operation started from
  form,        \* the validated form: its fields' attributes and parents
  value,       \* field.value of every field
  errorClass,  \* the fields whose classList holds 'error'
  errorEls,    \* per parent element: the texts of its .error-message children
  defaultPrevented,  \* whether the last submit event had preventDefault called
  page,        \* which of the toggle button, menu panel and backdrop exist
  innerWidth,  \* window.innerWidth
  refs,        \* MobileMenu.toggleBtn, .menu, .backdrop: TRUE for an element
  attached,    \* whether MobileMenu.attachEventListeners() has run
  menuOpen,    \* MobileMenu.menuOpen
  classOpen,   \* per menu element: whether its classList holds 'open'
  bodyOverflow, \* document.body.style.overflow
  clock,       \* the time in ms since the page was opened
  timers,      \* the pending setTimeout timers: [id, kind, due, arg]
  nextId,      \* the id the next setTimeout returns
  calls,       \* (history) the events or wrapper calls made: [at, arg]
  runs,        \* (history) the invocations of the delayed function: [at, arg]
  scrollTimeout, \* trackScroll's closure variable: a timer id, 0 for undefined
  wait,        \* the wait given to Utils.debounce
  timeout,     \* debounce's closure variable: a timer id, 0 for undefined
  limit,       \* the limit given to Utils.throttle
  inThrottle,  \* throttle's closure variable
  banners,     \* the notifications created, in order: [duration, inDoc, show, log]
  counter,     \* the [data-counter] element and the closure of its animation
  link,        \* (history) the anchor link clicked last
  scrollY,     \* window.scrollY
  scrollTo,    \* the last window.scrollTo request: [called, top]
  dispatch     \* (history) the listeners the last click on a link ran, in order

logVars == <<stored, startStore, sent>>
formVars == <<form, value, errorClass, errorEls, defaultPrevented>>
menuVars == <<page, innerWidth, refs, attached, menuOpen, classOpen, bodyOverflow>>
timeVars == <<clock, timers, nextId, calls, runs>>
utilVars == <<wait, timeout, limit, inThrottle>>
domVars == <<banners, counter, link, scrollY, scrollTo, dispatch>>
auxVars == <<timeVars, scrollTimeout, utilVars, domVars>>
vars ==
  <<stored, startStore, sent, loaded, err, lastOp, before,
    form, value, errorClass, errorEls, defaultPrevented,
    page, innerWidth, refs, attached, menuOpen, classOpen, bodyOverflow, auxVars>>

\* ------------------------------------------------------------------------
\* localStorage values.  A value is the text under the key, kept by what
\* JSON.parse makes of it: kind "array" is the JSON text of the array items.
\* ------------------------------------------------------------------------

Absent == [kind |-> "absent", items |-> <<>>]
EmptyText == [kind |-> "empty", items |-> <<>>]
Garbage == [kind |-> "garbage", items |-> <<>>]
NonArray == [kind |-> "nonarray", items |-> <<>>]
ArrayText(items) == [kind |-> "array", items |-> items]

\* an event record {event, data}; the data of every tracker carries a timestamp
Record(eventName, detail, ts) ==
  [event |-> eventName, data |-> [timestamp |-> ts, detail |-> detail]]

\* n records left by earlier visits of the page
Prefill(n) == [i \in 1..n |-> Record("pageview", "earlier", i - n)]

\* the lengths of the arrays a behaviour may start from
StartLens == {0, 1, LogCap - 1, LogCap, OversizeLen}

StartStores ==
  {Absent, EmptyText, Garbage, NonArray} \cup {ArrayText(Prefill(n)) : n \in StartLens}

\* ------------------------------------------------------------------------
\* Analytics.sendEvent
\* ------------------------------------------------------------------------

\* localStorage.getItem(key) || '[]'
getItemOrDefault(st) ==
  IF st.kind \in {"absent", "empty"} THEN ArrayText(<<>>) ELSE st

\* JSON.parse(text): throws SyntaxError on text that is not JSON
JSONparse(text) ==
  IF text.kind = "garbage"
    THEN [threw |-> "SyntaxError", isArray |-> FALSE, items |-> <<>>]
    ELSE [threw |-> "none", isArray |-> text.kind = "array", items |-> text.items]

\* mutant: no truncation
sliceAll(s, n) == s

\* mutant: keeps the oldest n entries
sliceHead(s, n) == IF Len(s) <= n THEN s ELSE SubSeq(s, 1, n)

\* Array.prototype.slice(-n): the last n entries
slice(s, n) == IF Len(s) <= n THEN s ELSE SubSeq(s, Len(s) - n + 1, Len(s))

\* mutant: the record is put in front of the array (unshift for push)
sendEventUnshift(st, rec) ==
  LET parsed == JSONparse(getItemOrDefault(st)) IN
  IF parsed.threw # "none" THEN [store |-> st, err |-> parsed.threw]
  ELSE IF ~parsed.isArray THEN [store |-> st, err |-> "TypeError"]
  ELSE [store |-> ArrayText(slice(<<rec>> \o parsed.items, LogCap)), err |-> "none"]

\* sendEvent(eventName, eventData) on the stored value st: the value stored
\* afterwards and the error raised ("none" when the call returns)
sendEvent(st, rec) ==
  LET parsed == JSONparse(getItemOrDefault(st)) IN
  IF parsed.threw # "none" THEN [store |-> st, err |-> parsed.threw]
  ELSE IF ~parsed.isArray THEN [store |-> st, err |-> "TypeError"]
  ELSE [store |-> ArrayText(slice(Append(parsed.items, rec), LogCap)), err |-> "none"]

\* the methods of the Analytics object
AnalyticsMethods ==
  {"init", "trackPageView", "trackUserInteractions", "trackFormSubmit",
   "getFormFieldNames", "trackScroll", "trackMediaPlay", "sendEvent"}

\* Analytics.<method>(eventName, eventData) for a method that logs an event:
\* calling a property the object does not have raises TypeError, and
\* sendEvent is not reached
callAnalytics(method, st, rec) ==
  IF method \notin AnalyticsMethods
    THEN [store |-> st, err |-> "TypeError", reached |-> FALSE]
    ELSE LET r == sendEvent(st, rec) IN
         [store |-> r.store, err |-> r.err, reached |-> TRUE]

\* ------------------------------------------------------------------------
\* FormValidator
\* ------------------------------------------------------------------------

\* field values are sequences of characters
Space == " "
Digits == {"1", "2", "3", "4", "5", "6", "7"}
Letters == {"a", "b", "c"}

RECURSIVE trimStart(_)
trimStart(v) ==
  IF v # <<>> /\ Head(v) = Space THEN trimStart(Tail(v)) ELSE v

RECURSIVE trimEnd(_)
trimEnd(v) ==
  IF v # <<>> /\ v[Len(v)] = Space THEN trimEnd(SubSeq(v, 1, Len(v) - 1)) ELSE v

\* String.prototype.trim()
trim(v) == trimEnd(trimStart(v))

\* /^[^\s@]+@[^\s@]+\.[^\s@]+$/.test(v)
emailRegex(v) ==
  \E i, j \in 1..Len(v) :
    /\ v[i] = "@"
    /\ v[j] = "."
    /\ 1 < i
    /\ i + 1 < j
    /\ j < Len(v)
    /\ \A k \in 1..Len(v) : k # i => v[k] \notin {Space, "@"}

\* /^[\d\s\-\+\(\)]{7,}$/.test(v)
phoneRegex(v) ==
  /\ Len(v) >= 7
  /\ \A k \in 1..Len(v) : v[k] \in Digits \cup {Space, "-", "+", "(", ")"}

\* new URL(v) returns (does not throw): v starts with a scheme.  No value of
\* the model spells a special scheme or holds a '/', so all that follows the
\* colon is an opaque path, which always parses.
urlParses(v) ==
  \E i \in 2..Len(v) :
    /\ v[i] = ":"
    /\ v[1] \in Letters
    /\ \A k \in 2..(i - 1) : v[k] \in Letters \cup Digits \cup {"+", "-", "."}

\* new RegExp(`^${pattern}$`).test(v) for the pattern attribute "[0-9]+"
patternRegex(v) == Len(v) >= 1 /\ \A k \in 1..Len(v) : v[k] \in Digits

MsgRequired == "This field is required"
MsgEmail == "Please enter a valid email address"
MsgPhone == "Please enter a valid phone number"
MsgUrl == "Please enter a valid URL"
MsgMin == "Minimum characters required"
MsgMax == "Maximum characters allowed"
MsgPattern == "Please enter a valid value"

\* the DOM the validator writes: dom.cls is the set of fields with class
\* 'error', dom.els maps a parent to the texts of its .error-message elements
Dom(cls, els) == [cls |-> cls, els |-> els]

\* showFieldError(field, message)
showFieldError(frm, dom, f, message) ==
  LET p == frm[f].parent
      old == dom.els[p] IN
  Dom(dom.cls \cup {f},
      [dom.els EXCEPT ![p] =
         IF old = <<>> THEN <<message>> ELSE [old EXCEPT ![1] = message]])

\* clearFieldError(field)
clearFieldError(frm, dom, f) ==
  LET p == frm[f].parent
      old == dom.els[p] IN
  Dom(dom.cls \ {f},
      [dom.els EXCEPT ![p] = IF old = <<>> THEN old ELSE Tail(old)])

\* mutant: a check is skipped once an earlier one has failed
checkStepFirstOnly(frm, acc, f, applies, passes, message) ==
  IF acc.ok /\ applies /\ ~passes
    THEN [dom |-> showFieldError(frm, acc.dom, f, message), ok |-> FALSE]
    ELSE acc

\* one check of validateField: on failure show the message and clear isValid
checkStep(frm, acc, f, applies, passes, message) ==
  IF applies /\ ~passes
    THEN [dom |-> showFieldError(frm, acc.dom, f, message), ok |-> FALSE]
    ELSE acc

\* mutant: an empty field that is not required goes through the other checks
validateFieldNoSkip(frm, vals, dom, f) ==
  LET a == frm[f]
      v == trim(vals[f])
      d0 == clearFieldError(frm, dom, f)
      s0 == [dom |-> d0, ok |-> TRUE]
      s1 == checkStep(frm, s0, f, a.type = "email", emailRegex(v), MsgEmail)
      s2 == checkStep(frm, s1, f, a.type = "tel", phoneRegex(v), MsgPhone)
      s3 == checkStep(frm, s2, f, a.type = "url", urlParses(v), MsgUrl)
      s4 == checkStep(frm, s3, f, a.hasMin, Len(v) >= a.minLength, MsgMin)
      s5 == checkStep(frm, s4, f, a.hasMax, Len(v) <= a.maxLength, MsgMax)
      s6 == checkStep(frm, s5, f, a.hasPattern, patternRegex(v), MsgPattern)
  IN
  IF a.required /\ v = <<>>
    THEN [dom |-> showFieldError(frm, d0, f, MsgRequired), ok |-> FALSE]
  ELSE s6

\* validateField(field): the DOM afterwards and the value returned
validateField(frm, vals, dom, f) ==
  LET a == frm[f]
      v == trim(vals[f])
      d0 == clearFieldError(frm, dom, f)
      s0 == [dom |-> d0, ok |-> TRUE]
      s1 == checkStep(frm, s0, f, a.type = "email", emailRegex(v), MsgEmail)
      s2 == checkStep(frm, s1, f, a.type = "tel", phoneRegex(v), MsgPhone)
      s3 == checkStep(frm, s2, f, a.type = "url", urlParses(v), MsgUrl)
      s4 == checkStep(frm, s3, f, a.hasMin, Len(v) >= a.minLength, MsgMin)
      s5 == checkStep(frm, s4, f, a.hasMax, Len(v) <= a.maxLength, MsgMax)
      s6 == checkStep(frm, s5, f, a.hasPattern, patternRegex(v), MsgPattern)
  IN
  IF a.required /\ v = <<>>
    THEN [dom |-> showFieldError(frm, d0, f, MsgRequired), ok |-> FALSE]
  ELSE IF ~a.required /\ v = <<>> THEN s0
  ELSE s6

\* the fields of the form in document order
FieldOrder == <<"f1", "f2">>
Fields == {FieldOrder[i] : i \in 1..Len(FieldOrder)}
Parents == {"p1", "p2"}

RECURSIVE validateFrom(_, _, _, _)
validateFrom(frm, vals, acc, i) ==
  IF i > Len(FieldOrder) THEN acc
  ELSE LET r == validateField(frm, vals, acc.dom, FieldOrder[i]) IN
       validateFrom(frm, vals, [dom |-> r.dom, ok |-> acc.ok /\ r.ok], i + 1)

\* mutant: the loop over the fields ends at the first field that fails
validateFormStopsAtFirst(frm, vals, dom) ==
  LET r == validateField(frm, vals, dom, FieldOrder[1]) IN
  IF ~r.ok THEN r
  ELSE validateFrom(frm, vals, [dom |-> dom, ok |-> TRUE], 1)

\* mutant: the result of the last field replaces the earlier ones
validateFormLastOnly(frm, vals, dom) ==
  LET all == validateFrom(frm, vals, [dom |-> dom, ok |-> TRUE], 1)
      last == validateField(frm, vals, all.dom, FieldOrder[Len(FieldOrder)]) IN
  [dom |-> all.dom, ok |-> last.ok]

\* validateForm(form): inputs.forEach over every field, then isValid
validateForm(frm, vals, dom) ==
  validateFrom(frm, vals, [dom |-> dom, ok |-> TRUE], 1)

\* mutant: the 'input' listener validates the field as the 'blur' one does
inputListenerValidating(frm, vals, dom, f) == validateField(frm, vals, dom, f).dom

\* the 'input' listener of a field: clearFieldError(input), the value not read
inputListener(frm, vals, dom, f) == clearFieldError(frm, dom, f)

\* the attributes of a field and the element it is a child of
FieldCfg(type, required, hasMin, hasMax, hasPattern, parent) ==
  [type |-> type, required |-> required,
   hasMin |-> hasMin, minLength |-> 3,
   hasMax |-> hasMax, maxLength |-> 5,
   hasPattern |-> hasPattern, parent |-> parent]

\* the fields a form of the model is made of: name, email, phone, website
\* and a numeric code of 3 to 5 digits
FieldKinds(parent) ==
  { FieldCfg("text", TRUE, FALSE, FALSE, FALSE, parent),
    FieldCfg("email", FALSE, FALSE, FALSE, FALSE, parent),
    FieldCfg("tel", TRUE, FALSE, FALSE, FALSE, parent),
    FieldCfg("url", FALSE, FALSE, TRUE, FALSE, parent),
    FieldCfg("text", FALSE, TRUE, TRUE, TRUE, parent) }

\* the forms: two fields, each in its own parent or both in one
Forms ==
  { [f \in Fields |-> IF f = "f1" THEN a ELSE b] :
      a \in FieldKinds("p1"), b \in FieldKinds("p1") \cup FieldKinds("p2") }

\* the values a user types
Values ==
  { <<>>,
    <<" ">>,
    <<"a">>,
    <<"a", "@", "b", ".", "c">>,
    <<"a", "@", "b">>,
    <<"1", "2", "3", "4", "5", "6", "7">>,
    <<"1", "2">>,
    <<"a", ":", "b">>,
    <<" ", "1", "2", "3", " ">> }

\* ------------------------------------------------------------------------
\* MobileMenu
\* ------------------------------------------------------------------------

\* if (window.innerWidth > 768 && this.menuOpen)
Breakpoint == 768

\* The operations work on r, the element references of the object (TRUE for
\* an element, FALSE for null), and on m, what they write: the menuOpen flag,
\* the presence of class 'open' on each element and document.body's
\* style.overflow.  Each yields the state it leaves and the error it raises:
\* a statement on a null reference raises TypeError and ends the operation.
Outcome(m, e) == [m |-> m, err |-> e]

\* mutant: openMenu adds the class with classList.toggle
openMenuToggling(r, m) ==
  IF ~r.menu \/ ~r.toggleBtn THEN Outcome([m EXCEPT !.menuOpen = TRUE], "TypeError")
  ELSE Outcome([menuOpen |-> TRUE,
                classOpen |-> [menu |-> ~m.classOpen.menu, toggleBtn |-> TRUE,
                               backdrop |-> r.backdrop \/ m.classOpen.backdrop],
                bodyOverflow |-> "hidden"], "none")

\* openMenu()
openMenu(r, m) ==
  LET m1 == [m EXCEPT !.menuOpen = TRUE]
      m2 == [m1 EXCEPT !.classOpen.menu = TRUE]
      m3 == [m2 EXCEPT !.classOpen.toggleBtn = TRUE]
      m4 == IF r.backdrop THEN [m3 EXCEPT !.classOpen.backdrop = TRUE] ELSE m3
      m5 == [m4 EXCEPT !.bodyOverflow = "hidden"] IN
  IF ~r.menu THEN Outcome(m1, "TypeError")
  ELSE IF ~r.toggleBtn THEN Outcome(m2, "TypeError")
  ELSE Outcome(m5, "none")

\* closeMenu()
closeMenu(r, m) ==
  LET m1 == [m EXCEPT !.menuOpen = FALSE]
      m2 == [m1 EXCEPT !.classOpen.menu = FALSE]
      m3 == [m2 EXCEPT !.classOpen.toggleBtn = FALSE]
      m4 == IF r.backdrop THEN [m3 EXCEPT !.classOpen.backdrop = FALSE] ELSE m3
      m5 == [m4 EXCEPT !.bodyOverflow = ""] IN
  IF ~r.menu THEN Outcome(m1, "TypeError")
  ELSE IF ~r.toggleBtn THEN Outcome(m2, "TypeError")
  ELSE Outcome(m5, "none")

\* mutant: toggleMenu always opens
toggleMenuOpens(r, m) == openMenu(r, m)

\* toggleMenu()
toggleMenu(r, m) == IF m.menuOpen THEN closeMenu(r, m) ELSE openMenu(r, m)

\* mutant: the breakpoint test is >= instead of >
handleResizeInclusive(r, m, width) ==
  IF width >= Breakpoint /\ m.menuOpen THEN closeMenu(r, m) ELSE Outcome(m, "none")

\* handleResize()
handleResize(r, m, width) ==
  IF width > Breakpoint /\ m.menuOpen THEN closeMenu(r, m) ELSE Outcome(m, "none")

\* the 'keydown' listener of the document
onKeydown(r, m, key) ==
  IF key = "Escape" /\ m.menuOpen THEN closeMenu(r, m) ELSE Outcome(m, "none")

NullRefs == [toggleBtn |-> FALSE, menu |-> FALSE, backdrop |-> FALSE]

\* mutant: init goes on to attach the listeners when an element is missing
initAttaching(pg, m, width) ==
  LET r == [toggleBtn |-> pg.toggleBtn, menu |-> pg.menu, backdrop |-> pg.backdrop]
      h == handleResize(r, m, width) IN
  [refs |-> r, attached |-> TRUE, m |-> h.m, err |-> h.err]

\* MobileMenu.init(): the references found in the page pg, whether the
\* listeners are attached, and the state handleResize() leaves
init(pg, m, width) ==
  LET r == [toggleBtn |-> pg.toggleBtn, menu |-> pg.menu, backdrop |-> pg.backdrop] IN
  IF ~r.toggleBtn \/ ~r.menu
    THEN [refs |-> r, attached |-> FALSE, m |-> m, err |-> "none"]
    ELSE LET h == handleResize(r, m, width) IN
         [refs |-> r, attached |-> TRUE, m |-> h.m, err |-> h.err]

\* the pages: which of the three menu elements the document has
Pages == [toggleBtn : BOOLEAN, menu : BOOLEAN, backdrop : BOOLEAN]
FullPage == [toggleBtn |-> TRUE, menu |-> TRUE, backdrop |-> TRUE]

\* window.innerWidth
Widths == {500, Breakpoint, Breakpoint + 1, 1024}

Keys == {"Escape", "Enter"}

\* the timestamp of the next record
Now == Len(sent) + 1

\* what the menu operations read and write
MenuState == [menuOpen |-> menuOpen, classOpen |-> classOpen, bodyOverflow |-> bodyOverflow]

SetMenu(m) ==
  /\ menuOpen' = m.menuOpen
  /\ classOpen' = m.classOpen
  /\ bodyOverflow' = m.bodyOverflow

Snapshot ==
  [stored |-> stored, sentLen |-> Len(sent), menu |-> MenuState, innerWidth |-> innerWidth,
   field |-> "none", hadError |-> FALSE]

\* the snapshot taken by a listener of field f: the field, and whether it
\* carried the error marker
SnapshotAt(f) == [Snapshot EXCEPT !.field = f, !.hadError = f \in errorClass]

\* ------------------------------------------------------------------------
\* Operations
\* ------------------------------------------------------------------------

\* document.addEventListener('DOMContentLoaded', ...): Analytics.init() sends
\* the page view first; an error raised there ends the handler, and the
\* initializers after it (FormValidator, MobileMenu) do not run.
DOMContentLoaded ==
  /\ loaded = "loading"
  /\ LET rec == Record("pageview", "url", Now)
         r == sendEvent(stored, rec) IN
       /\ sent' = Append(sent, rec)
       /\ stored' = r.store
       /\ IF r.err = "none"
            THEN LET i == init(page, MenuState, innerWidth) IN
                 /\ loaded' = "ready"
                 /\ err' = i.err
                 /\ refs' = i.refs
                 /\ attached' = i.attached
                 /\ SetMenu(i.m)
            ELSE /\ loaded' = "aborted"
                 /\ err' = r.err
                 /\ UNCHANGED <<refs, attached, menuOpen, classOpen, bodyOverflow>>
  /\ lastOp' = "DOMContentLoaded"
  /\ before' = Snapshot
  /\ UNCHANGED <<startStore, formVars, page, innerWidth, auxVars>>

TrackerNames == {"click", "scroll", "media_play", "media_pause"}

\* the event names open to the next sendEvent call of SpecLog
NamesNow == IF Len(sent) < MaxVaried THEN TrackerNames ELSE {"click"}

\* A tracker attached by the initializer (click, scroll timer, media play or
\* pause) runs and calls sendEvent.
Track(name) ==
  /\ loaded = "ready"
  /\ Len(sent) < MaxSends
  /\ LET rec == Record(name, "data", Now)
         r == sendEvent(stored, rec) IN
       /\ sent' = Append(sent, rec)
       /\ stored' = r.store
       /\ err' = r.err
  /\ lastOp' = "track"
  /\ before' = Snapshot
  /\ UNCHANGED <<startStore, loaded, formVars, menuVars, auxVars>>

\* window.CodeWave.Analytics.sendEvent(name, data) called from outside
ExportedSendEvent(name) ==
  /\ Len(sent) < MaxSends
  /\ LET rec == Record(name, "data", Now)
         r == sendEvent(stored, rec) IN
       /\ sent' = Append(sent, rec)
       /\ stored' = r.store
       /\ err' = r.err
  /\ lastOp' = "sendEvent"
  /\ before' = Snapshot
  /\ UNCHANGED <<startStore, loaded, formVars, menuVars, auxVars>>

\* ------------------------------------------------------------------------
\* Form events.  The listeners exist once FormValidator.init() has run.
\* ------------------------------------------------------------------------

\* the user edits a field: the 'input' listener clears the field's error
Input(f, v) ==
  /\ loaded = "ready"
  /\ value' = [value EXCEPT ![f] = v]
  /\ LET d == inputListener(form, value', Dom(errorClass, errorEls), f) IN
       /\ errorClass' = d.cls
       /\ errorEls' = d.els
  /\ err' = "none"
  /\ lastOp' = "input"
  /\ before' = SnapshotAt(f)
  /\ UNCHANGED <<logVars, loaded, form, defaultPrevented, menuVars, auxVars>>

\* the field loses focus: the 'blur' listener validates it
Blur(f) ==
  /\ loaded = "ready"
  /\ LET r == validateField(form, value, Dom(errorClass, errorEls), f) IN
       /\ errorClass' = r.dom.cls
       /\ errorEls' = r.dom.els
  /\ err' = "none"
  /\ lastOp' = "blur"
  /\ before' = SnapshotAt(f)
  /\ UNCHANGED <<logVars, loaded, form, value, defaultPrevented, menuVars, auxVars>>

\* a submit event on the form: the 'submit' listener of attachFormValidation
Submit ==
  /\ loaded = "ready"
  /\ LET r == validateForm(form, value, Dom(errorClass, errorEls))
         rec == Record("form_validation_error", "formId", Now)
         t == callAnalytics("trackEvent", stored, rec) IN
       /\ errorClass' = r.dom.cls
       /\ errorEls' = r.dom.els
       /\ defaultPrevented' = ~r.ok
       /\ IF r.ok
            THEN /\ err' = "none"
                 /\ UNCHANGED <<stored, sent>>
            ELSE /\ err' = t.err
                 /\ stored' = t.store
                 /\ sent' = IF t.reached THEN Append(sent, rec) ELSE sent
  /\ lastOp' = "submit"
  /\ before' = Snapshot
  /\ UNCHANGED <<startStore, loaded, form, value, menuVars, auxVars>>

\* ------------------------------------------------------------------------
\* Click dispatch and the menu events
\* ------------------------------------------------------------------------

\* the elements a click of the model lands on: whether closest('a, button')
\* and closest('[data-mobile-menu-toggle]') find an element from there
ToggleTarget == [name |-> "toggle", linkOrButton |-> TRUE, inToggle |-> TRUE]
BackdropTarget == [name |-> "backdrop", linkOrButton |-> FALSE, inToggle |-> FALSE]
MenuLinkTarget == [name |-> "menu-link", linkOrButton |-> TRUE, inToggle |-> FALSE]

\* the first error of two listeners run one after the other
firstErr(e1, e2) == IF e1 # "none" THEN e1 ELSE e2

\* The two 'click' listeners of the document, in the order they were added:
\* the tracker of Analytics.trackUserInteractions, then the menu tracker of
\* MobileMenu.attachEventListeners.  n is the timestamp of the first record.
documentClick(st, target, n) ==
  LET rec1 == Record("click", target.name, n)
      r1 == IF target.linkOrButton THEN sendEvent(st, rec1)
            ELSE [store |-> st, err |-> "none"]
      recs1 == IF target.linkOrButton THEN <<rec1>> ELSE <<>>
      rec2 == Record("mobile_menu_toggle", "", n + Len(recs1))
      r2 == IF target.inToggle THEN sendEvent(r1.store, rec2)
            ELSE [store |-> r1.store, err |-> "none"]
      recs2 == IF target.inToggle THEN <<rec2>> ELSE <<>> IN
  [store |-> r2.store, err |-> firstErr(r1.err, r2.err), recs |-> recs1 \o recs2]

\* mutant: the toggle listener lets the click bubble
toggleListenerBubbling(r, m) == [out |-> toggleMenu(r, m), stopped |-> FALSE]

\* the 'click' listener of the toggle button: e.stopPropagation(), toggleMenu()
toggleListener(r, m) == [out |-> toggleMenu(r, m), stopped |-> TRUE]

\* the rest of a click's dispatch after the listeners on the way up: the
\* document's listeners run unless propagation was stopped
bubble(stopped, st, target, n) ==
  IF stopped THEN [store |-> st, err |-> "none", recs |-> <<>>]
  ELSE documentClick(st, target, n)

\* a click on the toggle button
ToggleClick ==
  /\ attached
  /\ Len(sent) < MaxClicks
  /\ LET l == toggleListener(refs, MenuState)
         d == bubble(l.stopped, stored, ToggleTarget, Now) IN
       /\ SetMenu(l.out.m)
       /\ stored' = d.store
       /\ sent' = sent \o d.recs
       /\ err' = firstErr(l.out.err, d.err)
  /\ lastOp' = "toggleClick"
  /\ before' = Snapshot
  /\ UNCHANGED <<startStore, loaded, formVars, page, innerWidth, refs, attached, auxVars>>

\* a click on the backdrop; the listener exists if init found a backdrop
BackdropClick ==
  /\ attached
  /\ refs.backdrop
  /\ LET o == closeMenu(refs, MenuState)
         d == bubble(FALSE, stored, BackdropTarget, Now) IN
       /\ SetMenu(o.m)
       /\ stored' = d.store
       /\ sent' = sent \o d.recs
       /\ err' = firstErr(o.err, d.err)
  /\ lastOp' = "backdropClick"
  /\ before' = Snapshot
  /\ UNCHANGED <<startStore, loaded, formVars, page, innerWidth, refs, attached, auxVars>>

\* a click on a link inside the menu panel
MenuLinkClick ==
  /\ attached
  /\ Len(sent) < MaxClicks
  /\ LET o == closeMenu(refs, MenuState)
         d == bubble(FALSE, stored, MenuLinkTarget, Now) IN
       /\ SetMenu(o.m)
       /\ stored' = d.store
       /\ sent' = sent \o d.recs
       /\ err' = firstErr(o.err, d.err)
  /\ lastOp' = "menuLinkClick"
  /\ before' = Snapshot
  /\ UNCHANGED <<startStore, loaded, formVars, page, innerWidth, refs, attached, auxVars>>

\* a key press
KeyDown(key) ==
  /\ attached
  /\ LET o == onKeydown(refs, MenuState, key) IN
       /\ SetMenu(o.m)
       /\ err' = o.err
  /\ lastOp' = IF key = "Escape" THEN "escape" ELSE "otherKey"
  /\ before' = Snapshot
  /\ UNCHANGED <<logVars, loaded, formVars, page, innerWidth, refs, attached, auxVars>>

\* the window is resized to width; the 'resize' listener runs if attached
Resize(width) ==
  /\ innerWidth' = width
  /\ LET o == IF attached THEN handleResize(refs, MenuState, width)
              ELSE Outcome(MenuState, "none") IN
       /\ SetMenu(o.m)
       /\ err' = o.err
  /\ lastOp' = IF attached THEN "resize" ELSE "resizeUnheard"
  /\ before' = Snapshot
  /\ UNCHANGED <<logVars, loaded, formVars, page, refs, attached, auxVars>>

\* the elements of the page a click can land on
Targets == {ToggleTarget, BackdropTarget, MenuLinkTarget}

OnPage(target) ==
  \/ target = ToggleTarget /\ page.toggleBtn
  \/ target = BackdropTarget /\ page.backdrop
  \/ target = MenuLinkTarget /\ page.menu

\* a click on a page whose MobileMenu.init returned before
\* attachEventListeners: the only 'click' listener is the document's tracker
\* of Analytics.trackUserInteractions
UnheardClick(target) ==
  /\ loaded = "ready"
  /\ ~attached
  /\ OnPage(target)
  /\ Len(sent) < MaxClicks
  /\ LET d == documentClick(stored, [target EXCEPT !.inToggle = FALSE], Now) IN
       /\ stored' = d.store
       /\ sent' = sent \o d.recs
       /\ err' = d.err
  /\ lastOp' = "clickUnheard"
  /\ before' = Snapshot
  /\ UNCHANGED <<startStore, loaded, formVars, menuVars, auxVars>>

\* a key press on such a page: no 'keydown' listener exists
UnheardKey(key) ==
  /\ loaded = "ready"
  /\ ~attached
  /\ err' = "none"
  /\ lastOp' = "keyUnheard"
  /\ before' = Snapshot
  /\ UNCHANGED <<logVars, loaded, formVars, menuVars, auxVars>>

\* window.CodeWave.MobileMenu.toggleMenu() called from outside
ExportedToggleMenu ==
  /\ LET o == toggleMenu(refs, MenuState) IN
       /\ SetMenu(o.m)
       /\ err' = o.err
  /\ lastOp' = "toggleMenu"
  /\ before' = Snapshot
  /\ UNCHANGED <<logVars, loaded, formVars, page, innerWidth, refs, attached, auxVars>>

\* window.CodeWave.MobileMenu.openMenu() called from outside
ExportedOpenMenu ==
  /\ LET o == openMenu(refs, MenuState) IN
       /\ SetMenu(o.m)
       /\ err' = o.err
  /\ lastOp' = "openMenu"
  /\ before' = Snapshot
  /\ UNCHANGED <<logVars, loaded, formVars, page, innerWidth, refs, attached, auxVars>>

\* window.CodeWave.MobileMenu.closeMenu() called from outside
ExportedCloseMenu ==
  /\ LET o == closeMenu(refs, MenuState) IN
       /\ SetMenu(o.m)
       /\ err' = o.err
  /\ lastOp' = "closeMenu"
  /\ before' = Snapshot
  /\ UNCHANGED <<logVars, loaded, formVars, page, innerWidth, refs, attached, auxVars>>

\* ------------------------------------------------------------------------
\* Specification of the event log
\* ------------------------------------------------------------------------

\* the form before any event: empty fields, no error shown
InitFormOf(frm) ==
  /\ form = frm
  /\ value = [f \in Fields |-> <<>>]
  /\ errorClass = {}
  /\ errorEls = [p \in Parents |-> <<>>]
  /\ defaultPrevented = FALSE

DefaultForm == CHOOSE frm \in Forms : TRUE

\* the menu before the initializer: the object literal's fields, no class set
InitMenuOf(pg, width) ==
  /\ page = pg
  /\ innerWidth = width
  /\ refs = NullRefs
  /\ attached = FALSE
  /\ menuOpen = FALSE
  /\ classOpen = [menu |-> FALSE, toggleBtn |-> FALSE, backdrop |-> FALSE]
  /\ bodyOverflow = ""

\* no time has passed, no timer is pending, no wrapper was made
InitTime ==
  /\ clock = 0
  /\ timers = {}
  /\ nextId = 1
  /\ calls = <<>>
  /\ runs = <<>>

InitUtils(w, l) ==
  /\ wait = w
  /\ timeout = 0
  /\ limit = l
  /\ inThrottle = FALSE

\* an element of the page with its distance from the top of the document
NoLink == [href |-> "", exists |-> FALSE, top |-> 0]

\* no window.scrollTo request
NoScroll == [called |-> FALSE, top |-> 0]

\* the counter element: its attributes, its text, the 'counted' class, and
\* the closure of animateCounter: current (as current * duration, which is
\* 16 * target * ticks) and whether the interval timer is set; as history,
\* the calls of animateCounter and the intersecting notifications so far
CounterOf(target, durationAttr) ==
  [target |-> target, durationAttr |-> durationAttr, text |-> 0, counted |-> FALSE,
   scaled |-> 0, timer |-> FALSE, ticks |-> 0, started |-> 0, notified |-> 0]

InitDom ==
  /\ banners = <<>>
  /\ counter = CounterOf(100, 1000)
  /\ link = NoLink
  /\ scrollY = 0
  /\ scrollTo = NoScroll
  /\ dispatch = <<>>

InitAux ==
  /\ InitTime
  /\ scrollTimeout = 0
  /\ InitUtils(0, 0)
  /\ InitDom

InitLog ==
  /\ stored \in StartStores
  /\ startStore = stored
  /\ sent = <<>>
  /\ loaded = "loading"
  /\ err = "none"
  /\ lastOp = "none"
  /\ InitFormOf(DefaultForm)
  /\ InitMenuOf(FullPage, 500)
  /\ InitAux
  /\ before = Snapshot

NextLog ==
  \/ DOMContentLoaded
  \/ \E name \in NamesNow : Track(name)
  \/ \E name \in NamesNow : ExportedSendEvent(name)

SpecLog == InitLog /\ [][NextLog]_vars

\* ------------------------------------------------------------------------
\* Claims about the event log
\* ------------------------------------------------------------------------

SendOps == {"DOMContentLoaded", "track", "sendEvent"}

\* C1: once sendEvent has been called, whatever array the behaviour started
\* from, the array stored under 'codewave_events' holds at most 50 records.
C1_LogNeverExceedsCap ==
  (Len(sent) > 0 /\ stored.kind = "array") => Len(stored.items) <= LogCap

\* C1 witness: a call made on a full log (also on an oversize one) has stored
\* an array of exactly 50 records.
C1_Witness ==
  /\ lastOp \in SendOps
  /\ before.stored.kind = "array"
  /\ Len(before.stored.items) >= LogCap
  /\ stored.kind = "array"
  /\ Len(stored.items) = LogCap

StartedEmpty == startStore \in {Absent, EmptyText, ArrayText(<<>>)}

\* C2: starting from an empty log, after n calls the stored log is the last
\* min(n, 50) records sent, in the order sent.
C2_LogIsLastFifty ==
  (StartedEmpty /\ Len(sent) > 0) =>
    /\ stored.kind = "array"
    /\ Len(stored.items) = (IF Len(sent) < LogCap THEN Len(sent) ELSE LogCap)
    /\ \A i \in 1..Len(stored.items) :
         stored.items[i] = sent[Len(sent) - Len(stored.items) + i]

\* C2 witness: 51 records written to an empty log leave records 2..51.
C2_Witness ==
  /\ StartedEmpty
  /\ Len(sent) = LogCap + 1
  /\ stored.kind = "array"
  /\ Len(stored.items) = LogCap
  /\ stored.items[1] = sent[2]
  /\ stored.items[LogCap] = sent[LogCap + 1]

\* C3 (as claimed): a sendEvent call on an absent or unparseable stored value
\* returns normally and leaves the log holding exactly the new record.
C3_CorruptLogResets ==
  (lastOp \in SendOps /\ before.stored.kind \in {"absent", "garbage"}) =>
    /\ err = "none"
    /\ stored = ArrayText(<<sent[Len(sent)]>>)

\* ------------------------------------------------------------------------
\* Specification of the form validator
\* ------------------------------------------------------------------------

InitForm ==
  /\ stored \in {Absent, Garbage, ArrayText(Prefill(1))}
  /\ startStore = stored
  /\ sent = <<>>
  /\ loaded = "loading"
  /\ err = "none"
  /\ lastOp = "none"
  /\ \E frm \in Forms : InitFormOf(frm)
  /\ InitMenuOf(FullPage, 500)
  /\ InitAux
  /\ before = Snapshot

NextForm ==
  \/ DOMContentLoaded
  \/ \E f \in Fields, v \in Values : Input(f, v)
  \/ \E f \in Fields : Blur(f)
  \/ Submit

SpecForm == InitForm /\ [][NextForm]_vars

\* a field passes validation: empty only if not required, and otherwise the
\* trimmed value meets the type, the length limits and the pattern
FieldPasses(f) ==
  LET a == form[f]
      v == trim(value[f]) IN
  IF v = <<>> THEN ~a.required
  ELSE /\ a.type = "email" => emailRegex(v)
       /\ a.type = "tel" => phoneRegex(v)
       /\ a.type = "url" => urlParses(v)
       /\ a.hasMin => Len(v) >= a.minLength
       /\ a.hasMax => Len(v) <= a.maxLength
       /\ a.hasPattern => patternRegex(v)

RequiredEmpty(f) == form[f].required /\ trim(value[f]) = <<>>

\* C4: a submit event on a validated form in which some field fails (in
\* particular a required field whose trimmed value is empty) has its default
\* action prevented; the default submit goes ahead only when every field passes.
C4_InvalidSubmitPrevented ==
  lastOp = "submit" =>
    /\ (\E f \in Fields : RequiredEmpty(f)) => defaultPrevented
    /\ (\E f \in Fields : ~FieldPasses(f)) => defaultPrevented
    /\ ~defaultPrevented => \A f \in Fields : FieldPasses(f)

\* C4 witness: a submit was prevented though the last field passes, the
\* first one being required and empty.
C4_Witness ==
  /\ lastOp = "submit"
  /\ defaultPrevented
  /\ RequiredEmpty("f1")
  /\ FieldPasses("f2")
  /\ trim(value["f2"]) # <<>>

\* C5 (as claimed): a blocked submit appends a validation-error record for
\* the form to the event log, and the handler raises no error.
C5_BlockedSubmitLogged ==
  (lastOp = "submit" /\ defaultPrevented) =>
    /\ err = "none"
    /\ stored.kind = "array"
    /\ Len(stored.items) >= 1
    /\ stored.items[Len(stored.items)].event = "form_validation_error"

\* ------------------------------------------------------------------------
\* Specification of the mobile menu
\* ------------------------------------------------------------------------

InitMenu ==
  /\ stored \in {Absent, Garbage, ArrayText(Prefill(LogCap))}
  /\ startStore = stored
  /\ sent = <<>>
  /\ loaded = "loading"
  /\ err = "none"
  /\ lastOp = "none"
  /\ InitFormOf(DefaultForm)
  /\ \E pg \in Pages, width \in Widths : InitMenuOf(pg, width)
  /\ InitAux
  /\ before = Snapshot

NextMenu ==
  \/ DOMContentLoaded
  \/ ToggleClick
  \/ BackdropClick
  \/ MenuLinkClick
  \/ \E key \in Keys : KeyDown(key)
  \/ \E width \in Widths : Resize(width)
  \/ \E target \in Targets : UnheardClick(target)
  \/ \E key \in Keys : UnheardKey(key)
  \/ ExportedToggleMenu
  \/ ExportedOpenMenu
  \/ ExportedCloseMenu

SpecMenu == InitMenu /\ [][NextMenu]_vars

\* every element of the page that the menu marks carries class 'open'
AllMarked(m) ==
  /\ m.classOpen.menu
  /\ m.classOpen.toggleBtn
  /\ page.backdrop => m.classOpen.backdrop

NoneMarked(m) ==
  /\ ~m.classOpen.menu
  /\ ~m.classOpen.toggleBtn
  /\ ~m.classOpen.backdrop

\* C6 (as claimed): in every state reached once the initializer has run on a
\* page with a toggle button, menuOpen is true exactly when class 'open' is on
\* the menu panel, on the toggle button and on the backdrop (when there is one).
C6_FlagMatchesClasses ==
  (loaded = "ready" /\ page.toggleBtn) => (menuOpen <=> AllMarked(MenuState))

\* C7 (as claimed): every click on the toggle button appends one
\* 'mobile_menu_toggle' record to the event log.
C7_ToggleClickLogged ==
  lastOp = "toggleClick" =>
    /\ Len(sent) > before.sentLen
    /\ sent[Len(sent)].event = "mobile_menu_toggle"
    /\ stored.kind = "array"
    /\ Len(stored.items) >= 1
    /\ stored.items[Len(stored.items)] = sent[Len(sent)]

ClickOps == {"toggleClick", "backdropClick", "menuLinkClick"}
CloseTriggers == {"backdropClick", "escape", "menuLinkClick"}

\* C8: the menu starts closed; a click on the toggle button flips menuOpen;
\* backdrop click, Escape and menu-link click lead from open to closed and
\* never open a closed menu.
C8_MenuTransitions ==
  /\ lastOp = "none" => ~menuOpen
  /\ lastOp = "toggleClick" => menuOpen = ~before.menu.menuOpen
  /\ lastOp \in CloseTriggers => ~menuOpen

\* C8 witness: Escape has closed a menu that a toggle click had opened.
C8_Witness ==
  /\ lastOp = "escape"
  /\ before.menu.menuOpen
  /\ AllMarked(before.menu)
  /\ ~menuOpen
  /\ NoneMarked(MenuState)

\* the menu is open (closed) in the flag, the markers and the scroll lock
IsOpen(m) == m.menuOpen /\ AllMarked(m) /\ m.bodyOverflow = "hidden"
IsClosed(m) == ~m.menuOpen /\ NoneMarked(m) /\ m.bodyOverflow = ""

\* C9: openMenu on an open menu and closeMenu on a closed menu change neither
\* menuOpen, nor a class 'open', nor the scroll lock; and in every state a
\* second openMenu (closeMenu) changes nothing the first one left.
C9_OpenCloseIdempotent ==
  /\ (lastOp = "openMenu" /\ IsOpen(before.menu)) => MenuState = before.menu
  /\ (lastOp = "closeMenu" /\ IsClosed(before.menu)) => MenuState = before.menu
  /\ openMenu(refs, openMenu(refs, MenuState).m).m = openMenu(refs, MenuState).m
  /\ closeMenu(refs, closeMenu(refs, MenuState).m).m = closeMenu(refs, MenuState).m

\* C9 witness: openMenu was called on an open menu.
C9_Witness ==
  /\ lastOp = "openMenu"
  /\ IsOpen(before.menu)
  /\ IsOpen(MenuState)
  /\ err = "none"

\* C10: a resize handled while the menu is open and the width is above 768
\* closes the menu; a resize to a width of at most 768, or while the menu is
\* closed, leaves flag, markers and scroll lock as they were.
C10_ResizeClosesWhenWide ==
  lastOp = "resize" =>
    IF before.menu.menuOpen /\ innerWidth > Breakpoint
      THEN ~menuOpen /\ NoneMarked(MenuState) /\ bodyOverflow = ""
      ELSE MenuState = before.menu

\* C10 witness: an open menu at width 500 was closed by a resize to 1024.
C10_Witness ==
  /\ lastOp = "resize"
  /\ IsOpen(before.menu)
  /\ before.innerWidth = 500
  /\ innerWidth = 1024
  /\ IsClosed(MenuState)

\* C11 (as claimed): in every state reached once the initializer has run on a
\* page with a toggle button, page scrolling is suspended (body overflow
\* 'hidden') exactly when the menu is open.
C11_ScrollLockedIffOpen ==
  (loaded = "ready" /\ page.toggleBtn) => (bodyOverflow = "hidden" <=> menuOpen)

\* the messages of the checks a field fails, in the order of the checks:
\* required, type, minimum length, maximum length, pattern
FailedChecks(f) ==
  LET a == form[f]
      v == trim(value[f])
      checks ==
        << [bad |-> a.type = "email" /\ ~emailRegex(v), msg |-> MsgEmail],
           [bad |-> a.type = "tel" /\ ~phoneRegex(v), msg |-> MsgPhone],
           [bad |-> a.type = "url" /\ ~urlParses(v), msg |-> MsgUrl],
           [bad |-> a.hasMin /\ Len(v) < a.minLength, msg |-> MsgMin],
           [bad |-> a.hasMax /\ Len(v) > a.maxLength, msg |-> MsgMax],
           [bad |-> a.hasPattern /\ ~patternRegex(v), msg |-> MsgPattern] >>
      IsBad(c) == c.bad
      failed == SelectSeq(checks, IsBad) IN
  IF v = <<>> THEN (IF a.required THEN <<MsgRequired>> ELSE <<>>)
  ELSE [i \in 1..Len(failed) |-> failed[i].msg]

\* the value validateField would return for field f in this state
Returned(f) == validateField(form, value, Dom(errorClass, errorEls), f).ok

\* the message displayed in the parent of field f
Displayed(f) == errorEls[form[f].parent]

\* C12 (as claimed): validateField stops at the first failing check: when a
\* field fails, the message left displayed is that of the first failing check
\* in the order required, type, minimum, maximum, pattern.
C12_FirstFailureShown ==
  (lastOp = "blur" /\ FailedChecks(before.field) # <<>>) =>
    /\ before.field \in errorClass
    /\ Displayed(before.field) = <<Head(FailedChecks(before.field))>>

\* C12 (amended): validateField runs its checks in the order required, type,
\* minimum, maximum, pattern and stops only at a failing required check: it
\* returns false exactly when some check fails, and the message left
\* displayed is that of the last failing check in that order.
C12_LastFailureShown ==
  /\ \A f \in Fields : Returned(f) = (FailedChecks(f) = <<>>)
  /\ (lastOp = "blur" /\ FailedChecks(before.field) # <<>>) =>
       LET failed == FailedChecks(before.field) IN
       /\ before.field \in errorClass
       /\ Displayed(before.field) = <<failed[Len(failed)]>>

\* C12 witness: a blurred field fails two checks and shows the message of
\* the later one.
C12_Witness ==
  /\ lastOp = "blur"
  /\ Len(FailedChecks(before.field)) >= 2
  /\ Displayed(before.field) # <<Head(FailedChecks(before.field))>>
  /\ before.field \in errorClass

\* C13: a required field whose trimmed value is empty fails with the
\* 'required' message; a field that is not required and whose trimmed value is
\* empty passes whatever type, length or pattern it declares, and is left with
\* no error marker and no message.
C13_EmptyFieldRule ==
  /\ \A f \in Fields :
       trim(value[f]) = <<>> => (Returned(f) = ~form[f].required)
  /\ (lastOp = "blur" /\ trim(value[before.field]) = <<>>) =>
       IF form[before.field].required
         THEN /\ before.field \in errorClass
              /\ Displayed(before.field) = <<MsgRequired>>
         ELSE /\ before.field \notin errorClass
              /\ Displayed(before.field) = <<>>

\* C13 witness: a blank optional field that declares a type, or length
\* limits and a pattern, was validated and shows no error.
C13_Witness ==
  /\ lastOp = "blur"
  /\ value[before.field] = <<" ">>
  /\ ~form[before.field].required
  /\ form[before.field].hasPattern
  /\ before.field \notin errorClass
  /\ Displayed(before.field) = <<>>

\* the events a user can cause, heard by a listener or not
EventOps ==
  ClickOps \cup {"escape", "otherKey", "resize", "resizeUnheard", "clickUnheard", "keyUnheard"}

\* the initializer ran on a page without a toggle button or without a panel
InitFoundNothing == loaded = "ready" /\ (~page.toggleBtn \/ ~page.menu)

\* C20: when MobileMenu.init finds no toggle button or no menu panel, no
\* listener is attached, and afterwards every click, key press and resize
\* leaves the open flag, the markers and the scroll lock as they were and
\* raises no error.
C20_InitWithoutElementsIsInert ==
  InitFoundNothing =>
    /\ ~attached
    /\ lastOp \in EventOps \cup {"DOMContentLoaded"} =>
         (MenuState = before.menu /\ err = "none")

\* C20 witness: on a page with a toggle button and no panel, at a width
\* above the breakpoint, a click landed on the toggle button after the
\* initializer ran and the menu is still closed.
C20_Witness ==
  /\ InitFoundNothing
  /\ page.toggleBtn
  /\ lastOp = "clickUnheard"
  /\ Len(sent) >= 2
  /\ ~menuOpen
  /\ NoneMarked(MenuState)

\* ------------------------------------------------------------------------
\* Timers.  The event loop runs a timer at the instant it is due, timers due
\* at the same instant in the order they were set, and before any event of
\* that instant.
\* ------------------------------------------------------------------------

\* setTimeout(callback, delay) at time now, returning id
setTimeout(ts, id, kind, delay, arg, now) ==
  ts \cup {[id |-> id, kind |-> kind, due |-> now + delay, arg |-> arg]}

\* clearTimeout(id): nothing happens when no pending timer has this id
clearTimeout(ts, id) == {t \in ts : t.id # id}

\* the timer the event loop runs next, once its time has come
DueNow(t) ==
  /\ t \in timers
  /\ t.due <= clock
  /\ \A u \in timers : u.due > t.due \/ (u.due = t.due /\ u.id >= t.id)

\* no timer is due: the event loop takes the next event
Idle == \A t \in timers : t.due > clock

Min(a, b) == IF a <= b THEN a ELSE b

\* the instant reached when d ms pass, the next timer stopping the clock
After(d) ==
  LET target == Min(clock + d, MaxTime)
      dues == {t.due : t \in timers} IN
  IF \E x \in dues : x < target
    THEN CHOOSE x \in dues : \A y \in dues : x <= y
    ELSE target

\* the time steps of the model, in ms
Steps == {250, 500}

\* time passes
Advance(d) ==
  /\ Idle
  /\ clock < MaxTime
  /\ clock' = After(d)
  /\ lastOp' = "advance"
  /\ before' = Snapshot
  /\ UNCHANGED <<logVars, loaded, err, formVars, menuVars, timers, nextId, calls, runs,
                 scrollTimeout, utilVars, domVars>>

\* ------------------------------------------------------------------------
\* The scroll tracker
\* ------------------------------------------------------------------------

\* mutant: the listener sets a new timer without clearing the pending one
scrollListenerNoClear(ts, handle, id, now) ==
  [timers |-> setTimeout(ts, id, "scroll", ScrollDelay, "scroll", now), handle |-> id]

\* the 'scroll' listener of trackScroll: clearTimeout, then setTimeout
scrollListener(ts, handle, id, now) ==
  [timers |-> setTimeout(clearTimeout(ts, handle), id, "scroll", ScrollDelay, "scroll", now),
   handle |-> id]

\* a scroll event
Scroll ==
  /\ loaded = "ready"
  /\ Idle
  /\ Len(calls) < MaxCalls
  /\ LET l == scrollListener(timers, scrollTimeout, nextId, clock) IN
       /\ timers' = l.timers
       /\ scrollTimeout' = l.handle
  /\ nextId' = nextId + 1
  /\ calls' = Append(calls, [at |-> clock, arg |-> "scroll"])
  /\ err' = "none"
  /\ lastOp' = "scroll"
  /\ before' = Snapshot
  /\ UNCHANGED <<logVars, loaded, formVars, menuVars, clock, runs, utilVars, domVars>>

\* the timer set by the scroll listener runs: the record is sent
ScrollTimer ==
  /\ \E t \in timers :
       /\ t.kind = "scroll"
       /\ DueNow(t)
       /\ timers' = timers \ {t}
  /\ LET rec == Record("scroll", "data", Now)
         r == sendEvent(stored, rec) IN
       /\ sent' = Append(sent, rec)
       /\ stored' = r.store
       /\ err' = r.err
  /\ runs' = Append(runs, [at |-> clock, arg |-> "scroll"])
  /\ lastOp' = "scrollTimer"
  /\ before' = Snapshot
  /\ UNCHANGED <<startStore, loaded, formVars, menuVars, clock, nextId, calls,
                 scrollTimeout, utilVars, domVars>>

InitScroll ==
  /\ stored \in {Absent, Garbage, ArrayText(Prefill(LogCap))}
  /\ startStore = stored
  /\ sent = <<>>
  /\ loaded = "loading"
  /\ err = "none"
  /\ lastOp = "none"
  /\ InitFormOf(DefaultForm)
  /\ InitMenuOf(FullPage, 1024)
  /\ InitAux
  /\ before = Snapshot

NextScroll ==
  \/ DOMContentLoaded
  \/ Scroll
  \/ ScrollTimer
  \/ \E d \in Steps : Advance(d)

SpecScroll == InitScroll /\ [][NextScroll]_vars

\* the instants at which an event or call was made
CallTimes == {calls[j].at : j \in 1..Len(calls)}

\* no event or call was made strictly between c and c + delay
QuietAfter(c, delay) ==
  \A j \in 1..Len(calls) : ~(c < calls[j].at /\ calls[j].at < c + delay)

\* the invocations made at instant t
RunsAt(t) == {i \in 1..Len(runs) : runs[i].at = t}

\* the argument of the last call made at instant c
LastArgAt(c) ==
  LET js == {j \in 1..Len(calls) : calls[j].at = c}
      last == CHOOSE j \in js : \A k \in js : k <= j IN
  calls[last].arg

\* a trailing debounce of delay ms: every invocation is made delay ms after
\* a call that no call followed within delay ms, with the arguments of that
\* call, and every such call has had exactly one invocation once its delay
\* is over
TrailingDebounce(delay) ==
  /\ \A i \in 1..Len(runs) :
       LET c == runs[i].at - delay IN
       /\ c \in CallTimes
       /\ QuietAfter(c, delay)
       /\ runs[i].arg = LastArgAt(c)
       /\ RunsAt(runs[i].at) = {i}
  /\ \A c \in CallTimes :
       (QuietAfter(c, delay) /\ clock > c + delay) => Cardinality(RunsAt(c + delay)) = 1

\* the scroll records among the stored items after the first n
ScrollRecordsSince(n) ==
  LET recs == SubSeq(sent, n + 1, Len(sent)) IN
  Len(SelectSeq(recs, LAMBDA r : r.event = "scroll"))

\* C14: scroll logging is a trailing debounce of 500 ms: a 'scroll' record is
\* appended 500 ms after a scroll event that no scroll event followed, each
\* scroll event leaves exactly its own timer pending, and a burst of scroll
\* events less than 500 ms apart yields one record, after its last event.
C14_ScrollTrailingDebounce ==
  /\ TrailingDebounce(ScrollDelay)
  /\ ScrollRecordsSince(0) = Len(runs)
  /\ lastOp = "scrollTimer" =>
       /\ stored.kind = "array"
       /\ stored.items[Len(stored.items)].event = "scroll"
  /\ \A t \in timers :
       /\ t.id = scrollTimeout
       /\ t.due = calls[Len(calls)].at + ScrollDelay

\* C14 witness: a burst of three scroll events 250 ms apart has produced one
\* record, and a later single event has produced its own.
C14_Witness ==
  /\ Len(calls) = 4
  /\ calls[2].at = calls[1].at + 250
  /\ calls[3].at = calls[2].at + 250
  /\ calls[4].at >= calls[3].at + ScrollDelay
  /\ Len(runs) = 2
  /\ runs[1].at = calls[3].at + ScrollDelay
  /\ lastOp = "scrollTimer"

\* ------------------------------------------------------------------------
\* Utils.debounce
\* ------------------------------------------------------------------------

\* the arguments given to a wrapper, and the waits and limits it is made with
Args == {"a", "b"}
Waits == {250, 500}
Limits == {250, 500}

\* mutant: the wrapper sets a new timer without clearing the pending one
executedFunctionNoClear(ts, handle, id, w, args, now) ==
  [timers |-> setTimeout(ts, id, "later", w, args, now), handle |-> id]

\* executedFunction(...args), the wrapper returned by debounce(func, wait)
executedFunction(ts, handle, id, w, args, now) ==
  [timers |-> setTimeout(clearTimeout(ts, handle), id, "later", w, args, now),
   handle |-> id]

\* the wrapper is called with argument a
DebouncedCall(a) ==
  /\ Idle
  /\ Len(calls) < MaxCalls
  /\ LET w == executedFunction(timers, timeout, nextId, wait, a, clock) IN
       /\ timers' = w.timers
       /\ timeout' = w.handle
  /\ nextId' = nextId + 1
  /\ calls' = Append(calls, [at |-> clock, arg |-> a])
  /\ err' = "none"
  /\ lastOp' = "debounced"
  /\ before' = Snapshot
  /\ UNCHANGED <<logVars, loaded, formVars, menuVars, clock, runs, scrollTimeout,
                 wait, limit, inThrottle, domVars>>

\* later(): clearTimeout(timeout), then func(...args) with the arguments of
\* the call that set this timer
Later ==
  /\ \E t \in timers :
       /\ t.kind = "later"
       /\ DueNow(t)
       /\ timers' = clearTimeout(timers \ {t}, timeout)
       /\ runs' = Append(runs, [at |-> clock, arg |-> t.arg])
  /\ err' = "none"
  /\ lastOp' = "later"
  /\ before' = Snapshot
  /\ UNCHANGED <<logVars, loaded, formVars, menuVars, clock, nextId, calls,
                 scrollTimeout, utilVars, domVars>>

\* the state the operations on a wrapper start from: nothing loaded, the log empty
InitPage ==
  /\ stored = Absent
  /\ startStore = stored
  /\ sent = <<>>
  /\ loaded = "loading"
  /\ err = "none"
  /\ lastOp = "none"
  /\ InitFormOf(DefaultForm)
  /\ InitMenuOf(FullPage, 1024)

InitDebounce ==
  /\ InitPage
  /\ InitTime
  /\ scrollTimeout = 0
  /\ \E w \in Waits : InitUtils(w, 0)
  /\ InitDom
  /\ before = Snapshot

NextDebounce ==
  \/ \E a \in Args : DebouncedCall(a)
  \/ Later
  \/ \E d \in Steps : Advance(d)

SpecDebounce == InitDebounce /\ [][NextDebounce]_vars

\* C15: the wrapper of Utils.debounce(fn, wait) invokes fn wait ms after a
\* call that no call followed within wait ms, with the arguments of that
\* call, once; every call leaves exactly its own timer pending, so calls
\* less than wait ms apart yield one invocation, made with the arguments of
\* the last of them.
C15_DebounceTrailing ==
  /\ TrailingDebounce(wait)
  /\ \A t \in timers :
       /\ t.id = timeout
       /\ t.due = calls[Len(calls)].at + wait
       /\ t.arg = calls[Len(calls)].arg

\* C15 witness: three calls less than wait ms apart, with different
\* arguments, were followed by one invocation with the arguments of the last.
C15_Witness ==
  /\ wait = 500
  /\ Len(calls) = 3
  /\ calls[2].at = calls[1].at
  /\ calls[3].at = calls[2].at + 250
  /\ calls[3].arg # calls[2].arg
  /\ runs = <<[at |-> calls[3].at + wait, arg |-> calls[3].arg]>>

\* ------------------------------------------------------------------------
\* Utils.throttle
\* ------------------------------------------------------------------------

\* mutant: the wrapper does not set inThrottle
throttledNoFlag(th, ts, id, l, now) ==
  IF ~th
    THEN [run |-> TRUE, inThrottle |-> th, timers |-> setTimeout(ts, id, "release", l, "", now)]
    ELSE [run |-> FALSE, inThrottle |-> th, timers |-> ts]

\* the wrapper returned by throttle(func, limit): whether func is invoked,
\* the flag and the timers afterwards
throttled(th, ts, id, l, now) ==
  IF ~th
    THEN [run |-> TRUE, inThrottle |-> TRUE, timers |-> setTimeout(ts, id, "release", l, "", now)]
    ELSE [run |-> FALSE, inThrottle |-> th, timers |-> ts]

\* the wrapper is called with argument a
ThrottledCall(a) ==
  /\ Idle
  /\ Len(calls) < MaxCalls
  /\ LET w == throttled(inThrottle, timers, nextId, limit, clock) IN
       /\ timers' = w.timers
       /\ inThrottle' = w.inThrottle
       /\ runs' = IF w.run THEN Append(runs, [at |-> clock, arg |-> a]) ELSE runs
       /\ nextId' = IF w.run THEN nextId + 1 ELSE nextId
  /\ calls' = Append(calls, [at |-> clock, arg |-> a])
  /\ err' = "none"
  /\ lastOp' = "throttled"
  /\ before' = Snapshot
  /\ UNCHANGED <<logVars, loaded, formVars, menuVars, clock, scrollTimeout,
                 wait, timeout, limit, domVars>>

\* the timer of the cooldown runs: inThrottle = false
Release ==
  /\ \E t \in timers :
       /\ t.kind = "release"
       /\ DueNow(t)
       /\ timers' = timers \ {t}
  /\ inThrottle' = FALSE
  /\ err' = "none"
  /\ lastOp' = "release"
  /\ before' = Snapshot
  /\ UNCHANGED <<logVars, loaded, formVars, menuVars, clock, nextId, calls, runs,
                 scrollTimeout, wait, timeout, limit, domVars>>

InitThrottle ==
  /\ InitPage
  /\ InitTime
  /\ scrollTimeout = 0
  /\ \E l \in Limits : InitUtils(0, l)
  /\ InitDom
  /\ before = Snapshot

NextThrottle ==
  \/ \E a \in Args : ThrottledCall(a)
  \/ Release
  \/ \E d \in Steps : Advance(d)

SpecThrottle == InitThrottle /\ [][NextThrottle]_vars

\* the calls a throttle of limit ms lets through: the first one, and then
\* every call made limit ms or more after the last one let through
RECURSIVE AcceptedFrom(_, _, _)
AcceptedFrom(i, lastAt, acc) ==
  IF i > Len(calls) THEN acc
  ELSE IF lastAt < 0 \/ calls[i].at >= lastAt + limit
    THEN AcceptedFrom(i + 1, calls[i].at, Append(acc, calls[i]))
    ELSE AcceptedFrom(i + 1, lastAt, acc)

Accepted == AcceptedFrom(1, -1, <<>>)

\* C16: the wrapper of Utils.throttle(fn, limit) invokes fn at once on a call
\* made outside a cooldown, never twice within limit ms, never for a call
\* made during the cooldown, at the call or later, and again for the first
\* call made once the cooldown is over.
C16_ThrottleDropsDuringCooldown ==
  /\ runs = Accepted
  /\ \A i, k \in 1..Len(runs) : i < k => runs[k].at - runs[i].at >= limit
  /\ inThrottle <=> (\E t \in timers : t.kind = "release")
  /\ inThrottle => clock <= runs[Len(runs)].at + limit

\* C16 witness: a call was invoked, two calls made during its cooldown were
\* dropped, and a call made after the cooldown was invoked.
C16_Witness ==
  /\ Len(calls) = 4
  /\ Len(runs) = 2
  /\ runs[1] = calls[1]
  /\ calls[2].at > calls[1].at
  /\ calls[3].at < calls[1].at + limit
  /\ runs[2] = calls[4]
  /\ calls[4].arg # calls[3].arg

\* ------------------------------------------------------------------------
\* Utils.showNotification
\* ------------------------------------------------------------------------

\* the durations notifications are shown with, in ms
Durations == {5, 10, 1000}

\* one more step in the life of banner b
Logged(bs, b, ev) ==
  [bs EXCEPT ![b].log = Append(@, [ev |-> ev, at |-> clock])]

\* showNotification(message, type, duration): the element is appended to the
\* body, and the timers of 'show' (10 ms) and of its removal (duration) are set
showNotification(bs, ts, id, duration, now) ==
  LET b == Len(bs) + 1
      el == [duration |-> duration, inDoc |-> TRUE, show |-> FALSE,
             log |-> <<[ev |-> "inserted", at |-> now]>>]
      t1 == setTimeout(ts, id, "reveal", RevealDelay, b, now)
      t2 == setTimeout(t1, id + 1, "hide", duration, b, now) IN
  [banners |-> Append(bs, el), timers |-> t2]

Notify(duration) ==
  /\ Idle
  /\ Len(banners) < MaxBanners
  /\ LET n == showNotification(banners, timers, nextId, duration, clock) IN
       /\ banners' = n.banners
       /\ timers' = n.timers
  /\ nextId' = nextId + 2
  /\ err' = "none"
  /\ lastOp' = "showNotification"
  /\ before' = Snapshot
  /\ UNCHANGED <<logVars, loaded, formVars, menuVars, clock, calls, runs, scrollTimeout,
                 utilVars, counter, link, scrollY, scrollTo, dispatch>>

\* the first timer: notification.classList.add('show')
Reveal ==
  /\ \E t \in timers :
       /\ t.kind = "reveal"
       /\ DueNow(t)
       /\ timers' = timers \ {t}
       /\ banners' = [Logged(banners, t.arg, "revealed") EXCEPT ![t.arg].show = TRUE]
  /\ err' = "none"
  /\ lastOp' = "reveal"
  /\ before' = Snapshot
  /\ UNCHANGED <<logVars, loaded, formVars, menuVars, clock, nextId, calls, runs,
                 scrollTimeout, utilVars, counter, link, scrollY, scrollTo, dispatch>>

\* the second timer: classList.remove('show'), and the timer of remove()
Hide ==
  /\ \E t \in timers :
       /\ t.kind = "hide"
       /\ DueNow(t)
       /\ timers' = setTimeout(timers \ {t}, nextId, "remove", RemoveGrace, t.arg, clock)
       /\ banners' = [Logged(banners, t.arg, "hidden") EXCEPT ![t.arg].show = FALSE]
  /\ nextId' = nextId + 1
  /\ err' = "none"
  /\ lastOp' = "hide"
  /\ before' = Snapshot
  /\ UNCHANGED <<logVars, loaded, formVars, menuVars, clock, calls, runs,
                 scrollTimeout, utilVars, counter, link, scrollY, scrollTo, dispatch>>

\* the third timer: notification.remove()
Remove ==
  /\ \E t \in timers :
       /\ t.kind = "remove"
       /\ DueNow(t)
       /\ timers' = timers \ {t}
       /\ banners' = [Logged(banners, t.arg, "removed") EXCEPT ![t.arg].inDoc = FALSE]
  /\ err' = "none"
  /\ lastOp' = "remove"
  /\ before' = Snapshot
  /\ UNCHANGED <<logVars, loaded, formVars, menuVars, clock, nextId, calls, runs,
                 scrollTimeout, utilVars, counter, link, scrollY, scrollTo, dispatch>>

InitNotify ==
  /\ InitPage
  /\ InitAux
  /\ before = Snapshot

NextNotify ==
  \/ \E duration \in Durations : Notify(duration)
  \/ Reveal
  \/ Hide
  \/ Remove
  \/ \E d \in Steps : Advance(d)

SpecNotify == InitNotify /\ [][NextNotify]_vars

\* the life of a banner shown at instant t0 for duration ms, as claimed
Lifecycle(t0, duration) ==
  << [ev |-> "inserted", at |-> t0],
     [ev |-> "revealed", at |-> t0 + RevealDelay],
     [ev |-> "hidden", at |-> t0 + duration],
     [ev |-> "removed", at |-> t0 + duration + RemoveGrace] >>

\* C19: every banner goes through inserted, revealed (10 ms later), hidden
\* (at duration) and removed (300 ms later) in that order, whatever the
\* duration; it is never revealed after it was hidden, and it carries 'show'
\* only between its reveal and its hiding.
C19_BannerLifecycle ==
  \A b \in 1..Len(banners) :
    LET life == Lifecycle(banners[b].log[1].at, banners[b].duration)
        n == Len(banners[b].log) IN
    /\ n <= Len(life)
    /\ banners[b].log = SubSeq(life, 1, n)
    /\ banners[b].show <=> (n = 2)
    /\ banners[b].inDoc <=> (n < 4)

\* ------------------------------------------------------------------------
\* AnimationManager: the counter animation.  current is kept exactly, as
\* current * duration; where the sum of the increments equals the target
\* exactly, the floating-point sum of the code may equal it or fall just
\* short of it, and both outcomes are taken.
\* ------------------------------------------------------------------------

\* parseInt(data-duration) || 2000, the attribute 0 standing for none
DurationOf(c) == IF c.durationAttr = 0 THEN DefaultDuration ELSE c.durationAttr

\* animateCounter(element) up to setInterval: current = 0, the timer is set
animateCounter(c) ==
  [c EXCEPT !.scaled = 0, !.timer = TRUE, !.ticks = 0, !.started = @ + 1]

\* mutant: the last tick displays the floor of current like the others
intervalTickNoSnap(c, roundedDown) ==
  LET cur == c.scaled + TickMs * c.target
      full == c.target * DurationOf(c)
      reached == cur > full \/ (cur = full /\ ~roundedDown) IN
  [c EXCEPT !.scaled = cur, !.ticks = @ + 1,
            !.text = IF cur = full /\ roundedDown THEN c.target - 1 ELSE cur \div DurationOf(c),
            !.timer = ~reached]

\* one run of the interval's callback: current += increment, then either
\* the target is displayed and the timer cleared, or floor(current) displayed
intervalTick(c, roundedDown) ==
  LET cur == c.scaled + TickMs * c.target
      full == c.target * DurationOf(c)
      reached == cur > full \/ (cur = full /\ ~roundedDown) IN
  IF reached
    THEN [c EXCEPT !.scaled = cur, !.ticks = @ + 1, !.text = c.target, !.timer = FALSE]
    ELSE [c EXCEPT !.scaled = cur, !.ticks = @ + 1,
                   !.text = IF cur = full THEN c.target - 1 ELSE cur \div DurationOf(c)]

\* mutant: the callback does not look for the 'counted' class
observerCallbackUnmarked(c, isIntersecting) ==
  IF isIntersecting THEN [animateCounter(c) EXCEPT !.counted = TRUE] ELSE c

\* the IntersectionObserver's callback for the entry of the counter
observerCallback(c, isIntersecting) ==
  IF isIntersecting /\ ~c.counted
    THEN [animateCounter(c) EXCEPT !.counted = TRUE]
    ELSE c

\* the observer notifies that the counter crossed 50% visibility, entering
\* (isIntersecting) or leaving
Intersect(isIntersecting) ==
  /\ loaded = "ready"
  /\ counter.notified < MaxNotified
  /\ counter' = [observerCallback(counter, isIntersecting) EXCEPT
                   !.notified = IF isIntersecting THEN @ + 1 ELSE @]
  /\ err' = "none"
  /\ lastOp' = "intersect"
  /\ before' = Snapshot
  /\ UNCHANGED <<logVars, loaded, formVars, menuVars, timeVars, scrollTimeout, utilVars,
                 banners, link, scrollY, scrollTo, dispatch>>

\* the interval timer runs its callback
CounterTick(roundedDown) ==
  /\ counter.timer
  /\ counter' = intervalTick(counter, roundedDown)
  /\ err' = "none"
  /\ lastOp' = "counterTick"
  /\ before' = Snapshot
  /\ UNCHANGED <<logVars, loaded, formVars, menuVars, timeVars, scrollTimeout, utilVars,
                 banners, link, scrollY, scrollTo, dispatch>>

\* the targets and data-duration attributes of the counters, 0 for no attribute
CounterTargets == {1, 7, 100}
DurationAttrs == {0, 1, 16, 100, 160, 1000}

InitCounter ==
  /\ InitPage
  /\ InitTime
  /\ scrollTimeout = 0
  /\ InitUtils(0, 0)
  /\ banners = <<>>
  /\ \E target \in CounterTargets, d \in DurationAttrs : counter = CounterOf(target, d)
  /\ link = NoLink
  /\ scrollY = 0
  /\ scrollTo = NoScroll
  /\ dispatch = <<>>
  /\ before = Snapshot

NextCounter ==
  \/ DOMContentLoaded
  \/ \E isIntersecting \in BOOLEAN : Intersect(isIntersecting)
  \/ \E roundedDown \in BOOLEAN : CounterTick(roundedDown)

\* setInterval runs its callback again and again until it is cleared
SpecCounter ==
  InitCounter /\ [][NextCounter]_vars
    /\ WF_vars(\E roundedDown \in BOOLEAN : CounterTick(roundedDown))

\* C17: a started counter animation terminates: no displayed value exceeds
\* the target, the timer is eventually cleared, and from then on the
\* displayed value is exactly the target.
C17_CounterTerminates ==
  /\ [](counter.text <= counter.target)
  /\ []((counter.counted /\ ~counter.timer) => counter.text = counter.target)
  /\ (counter.timer ~> (~counter.timer /\ counter.text = counter.target))

\* C17 witness: the counter to 100 over 1000 ms has stopped at tick 63 of
\* its timer, displaying 100.
C17_Witness ==
  /\ counter.target = 100
  /\ counter.durationAttr = 1000
  /\ counter.counted
  /\ ~counter.timer
  /\ counter.ticks = 63
  /\ counter.text = 100

\* ------------------------------------------------------------------------
\* SmoothScroll
\* ------------------------------------------------------------------------

\* the hrefs of the anchor links: the bare '#', an id that is a CSS
\* identifier, and an id that is none (it starts with a digit)
Hrefs == {"#", "#section2", "#2col"}

\* the distances of the target elements from the top of the document
Tops == {0, 50, 300, 1000, 2000}

ScrollYs == {0, 100, 500}

\* the links: the href, whether the document has an element with that id,
\* and where
Links == [href : Hrefs, exists : BOOLEAN, top : Tops]

\* document.querySelector(href): '#2col' is not a valid selector, and the
\* call throws a SyntaxError whether the element exists or not
querySelector(l) ==
  IF l.href = "#2col" THEN "SyntaxError"
  ELSE IF l.exists THEN "element" ELSE "null"

\* element.getBoundingClientRect().top with the viewport scrolled to y
rectTop(l, y) == l.top - y

\* scrollToElement(element): the request made to window.scrollTo
scrollToElement(l, y) == [called |-> TRUE, top |-> rectTop(l, y) + y - HeaderOffset]

\* the 'click' listener SmoothScroll.init puts on a link
anchorListener(l, y) ==
  IF l.href = "#" THEN [prevented |-> FALSE, scroll |-> NoScroll, err |-> "none"]
  ELSE LET target == querySelector(l) IN
       IF target = "SyntaxError"
         THEN [prevented |-> FALSE, scroll |-> NoScroll, err |-> "SyntaxError"]
       ELSE IF target = "null"
         THEN [prevented |-> FALSE, scroll |-> NoScroll, err |-> "none"]
       ELSE [prevented |-> TRUE, scroll |-> scrollToElement(l, y), err |-> "none"]

\* the scroll position a request or a jump ends at
Clamp(top) == IF top < 0 THEN 0 ELSE Min(top, MaxScrollY)

\* where the viewport is after the click: at the requested position, or,
\* the default action not prevented, where the browser's jump to the
\* fragment leaves it
positionAfter(l, res, y) ==
  IF res.scroll.called THEN Clamp(res.scroll.top)
  ELSE IF l.href = "#" THEN 0
  ELSE IF l.exists THEN Clamp(l.top)
  ELSE y

AnchorTarget == [name |-> "anchor", linkOrButton |-> TRUE, inToggle |-> FALSE]

\* a click on an anchor link outside the menu: the link's listener, then the
\* document's click tracker
AnchorClick(l) ==
  /\ loaded = "ready"
  /\ Len(sent) < MaxClicks
  /\ LET res == anchorListener(l, scrollY)
         d == documentClick(stored, AnchorTarget, Now) IN
       /\ defaultPrevented' = res.prevented
       /\ scrollTo' = res.scroll
       /\ scrollY' = positionAfter(l, res, scrollY)
       /\ stored' = d.store
       /\ sent' = sent \o d.recs
       /\ err' = firstErr(res.err, d.err)
  /\ link' = l
  /\ lastOp' = "anchorClick"
  /\ before' = Snapshot
  /\ UNCHANGED <<startStore, loaded, form, value, errorClass, errorEls, menuVars, timeVars,
                 scrollTimeout, utilVars, banners, counter, dispatch>>

InitAnchor ==
  /\ InitPage
  /\ InitTime
  /\ scrollTimeout = 0
  /\ InitUtils(0, 0)
  /\ banners = <<>>
  /\ counter = CounterOf(100, 1000)
  /\ link = NoLink
  /\ scrollY \in ScrollYs
  /\ scrollTo = NoScroll
  /\ dispatch = <<>>
  /\ before = Snapshot

NextAnchor ==
  \/ DOMContentLoaded
  \/ \E l \in Links : AnchorClick(l)

SpecAnchor == InitAnchor /\ [][NextAnchor]_vars

\* C18: a click on an anchor link whose href names an existing element has
\* its default action prevented and asks the viewport to scroll to the
\* element's distance from the top of the document minus 80; a click on a
\* link whose href is '#' or names no element neither prevents the default
\* action nor scrolls.
C18_AnchorClickScrolls ==
  lastOp = "anchorClick" =>
    IF link.href # "#" /\ link.exists
      THEN /\ defaultPrevented
           /\ scrollTo = [called |-> TRUE, top |-> link.top - HeaderOffset]
           /\ scrollY = Clamp(link.top - HeaderOffset)
           /\ err = "none"
      ELSE /\ ~defaultPrevented
           /\ ~scrollTo.called

\* ------------------------------------------------------------------------
\* The form as a whole
\* ------------------------------------------------------------------------

\* C22: validateForm validates every field, also after a field has failed:
\* it returns true exactly when every field passes, and after a submit the
\* fields that carry the error marker are exactly the failing ones.
C22_EveryFieldValidated ==
  /\ validateForm(form, value, Dom(errorClass, errorEls)).ok
       = (\A f \in Fields : FieldPasses(f))
  /\ lastOp = "submit" =>
       /\ defaultPrevented = (\E f \in Fields : ~FieldPasses(f))
       /\ \A f \in Fields : (f \in errorClass) = ~FieldPasses(f)

\* C22 witness: a submit with two failing fields in different parents left
\* both marked.
C22_Witness ==
  /\ lastOp = "submit"
  /\ \A f \in Fields : ~FieldPasses(f)
  /\ form["f1"].parent # form["f2"].parent
  /\ errorClass = Fields
  /\ defaultPrevented

\* an 'input' event clears and never shows: no field gains the marker and
\* no parent gains a message
InputOnlyClears ==
  lastOp' = "input" =>
    /\ errorClass' \subseteq errorClass
    /\ \A p \in Parents : Len(errorEls'[p]) <= Len(errorEls[p])

\* C23: an input event on a field removes its error marker and the message
\* displayed in its parent at once, whatever the new value, and no input
\* event shows an error again: the field stays without error until a blur
\* or a submit.
C23_InputClearsWithoutValidating ==
  /\ [](lastOp = "input" =>
          /\ before.field \notin errorClass
          /\ Displayed(before.field) = <<>>)
  /\ [][InputOnlyClears]_vars

\* C23 witness: a field that showed an error was given a value that is still
\* invalid, and shows no error.
C23_Witness ==
  /\ lastOp = "input"
  /\ before.hadError
  /\ ~FieldPasses(before.field)
  /\ trim(value[before.field]) # <<>>
  /\ before.field \notin errorClass
  /\ Displayed(before.field) = <<>>

\* C25: every field that carries the error marker has an error message
\* displayed in its parent, and no parent holds more than one error-message
\* element.
C25_MarkedFieldHasMessage ==
  /\ \A f \in errorClass : Displayed(f) # <<>>
  /\ \A p \in Parents : Len(errorEls[p]) <= 1

\* C24: over any sequence of intersection notifications, animateCounter is
\* started at most once for the counter element, at the first notification
\* that finds it intersecting, and later notifications leave its animation
\* alone.
C24_CounterStartsOnce ==
  /\ counter.started <= 1
  /\ counter.started = 1 <=> counter.notified >= 1
  /\ counter.counted <=> counter.notified >= 1
  /\ (counter.notified >= 1 /\ ~counter.timer) => counter.text = counter.target

\* C24 witness: the counter was notified as intersecting a second time
\* while its animation was running, and the animation went on from where
\* it was.
C24_Witness ==
  /\ lastOp = "intersect"
  /\ counter.notified = 2
  /\ counter.started = 1
  /\ counter.timer
  /\ counter.ticks >= 2

\* ------------------------------------------------------------------------
\* Handlers and timers that log, interleaved.  A listener or a timer callback
\* runs to its end before the event loop takes the next one, so each is one
\* step; what interleaves is their order.
\* ------------------------------------------------------------------------

\* the trackers other than the scroll timer: clicks, media play and pause
DirectNames == {"click", "media_play", "media_pause"}

InitInterleave ==
  /\ stored \in {Absent, Garbage, ArrayText(Prefill(LogCap - 1))}
  /\ startStore = stored
  /\ sent = <<>>
  /\ loaded = "loading"
  /\ err = "none"
  /\ lastOp = "none"
  /\ InitFormOf(DefaultForm)
  /\ InitMenuOf(FullPage, 500)
  /\ InitAux
  /\ before = Snapshot

NextInterleave ==
  \/ DOMContentLoaded
  \/ \E name \in DirectNames : Len(sent) < MaxLogged /\ Track(name)
  \/ Len(sent) < MaxLogged /\ MenuLinkClick
  \/ Scroll
  \/ ScrollTimer
  \/ \E d \in Steps : Advance(d)

SpecInterleave == InitInterleave /\ [][NextInterleave]_vars

\* the records in the log when the page was opened
StartItems == IF startStore.kind = "array" THEN startStore.items ELSE <<>>

\* C21: whatever the order in which click, media and menu handlers and the
\* scroll timer run, the stored log is the records it started with followed
\* by every record sent, in the order sent, less the oldest ones beyond 50:
\* none is lost, duplicated or out of order.
C21_NoRecordLostOrReordered ==
  loaded = "ready" =>
    LET all == StartItems \o sent
        n == Min(Len(all), LogCap) IN
    /\ err = "none"
    /\ stored.kind = "array"
    /\ Len(stored.items) = n
    /\ \A i \in 1..n : stored.items[i] = all[Len(all) - n + i]

\* C21 witness: on a log that was one short of full, a scroll event, then a
\* media event and a click in a menu, then the scroll timer: the scroll
\* record is the last of the log and the oldest records are gone.
C21_Witness ==
  /\ loaded = "ready"
  /\ lastOp = "scrollTimer"
  /\ Len(StartItems) = LogCap - 1
  /\ Len(sent) = 4
  /\ sent[2].event = "media_play"
  /\ sent[3].event = "click"
  /\ calls[1].at < clock
  /\ stored.items[LogCap] = sent[4]
  /\ stored.items[1] = StartItems[4]

\* ------------------------------------------------------------------------
\* An anchor link inside the menu panel
\* ------------------------------------------------------------------------

\* mutant: SmoothScroll.init() runs before MobileMenu.init()
linkListenersScrollFirst(att, inMenu) ==
  <<"smoothScroll">> \o (IF att /\ inMenu THEN <<"closeMenu">> ELSE <<>>)

\* the 'click' listeners of an anchor link, in the order they were added:
\* MobileMenu.init() adds its own to the links of the panel, then
\* SmoothScroll.init() adds one to every a[href^="#"]
linkListeners(att, inMenu) ==
  (IF att /\ inMenu THEN <<"closeMenu">> ELSE <<>>) \o <<"smoothScroll">>

\* the listeners ls run from the i-th on; acc holds the menu state, the
\* outcome of the smooth-scroll listener, the first error, and for every
\* listener run the menu state it started from
RECURSIVE runListeners(_, _, _, _, _, _)
runListeners(ls, i, r, l, y, acc) ==
  IF i > Len(ls) THEN acc
  ELSE LET started == [listener |-> ls[i], menuOpen |-> acc.m.menuOpen,
                       bodyOverflow |-> acc.m.bodyOverflow]
           next ==
             IF ls[i] = "closeMenu"
               THEN LET o == closeMenu(r, acc.m) IN
                    [acc EXCEPT !.m = o.m, !.err = firstErr(@, o.err),
                                !.log = Append(@, started)]
               ELSE LET res == anchorListener(l, y) IN
                    [acc EXCEPT !.res = res, !.err = firstErr(@, res.err),
                                !.log = Append(@, started)] IN
       runListeners(ls, i + 1, r, l, y, next)

\* a click on an anchor link of the menu panel: the link's listeners, then
\* the document's
MenuAnchorClick(l) ==
  /\ loaded = "ready"
  /\ attached
  /\ Len(sent) < MaxClicks
  /\ LET start == [m |-> MenuState, err |-> "none", log |-> <<>>,
                   res |-> [prevented |-> FALSE, scroll |-> NoScroll, err |-> "none"]]
         a == runListeners(linkListeners(attached, TRUE), 1, refs, l, scrollY, start)
         d == documentClick(stored, MenuLinkTarget, Now) IN
       /\ SetMenu(a.m)
       /\ defaultPrevented' = a.res.prevented
       /\ scrollTo' = a.res.scroll
       /\ scrollY' = positionAfter(l, a.res, scrollY)
       /\ dispatch' = a.log
       /\ stored' = d.store
       /\ sent' = sent \o d.recs
       /\ err' = firstErr(a.err, d.err)
  /\ link' = l
  /\ lastOp' = "menuAnchorClick"
  /\ before' = Snapshot
  /\ UNCHANGED <<startStore, loaded, form, value, errorClass, errorEls, page, innerWidth,
                 refs, attached, timeVars, scrollTimeout, utilVars, banners, counter>>

\* the anchor links of the panel, the bare '#' taken once
MenuLinks == {l \in Links : l.href # "#" \/ (l.top = 0 /\ ~l.exists)}

InitMenuAnchor ==
  /\ stored \in {Absent, Garbage}
  /\ startStore = stored
  /\ sent = <<>>
  /\ loaded = "loading"
  /\ err = "none"
  /\ lastOp = "none"
  /\ InitFormOf(DefaultForm)
  /\ \E pg \in Pages, width \in {500, 1024} : InitMenuOf(pg, width)
  /\ InitAux
  /\ before = Snapshot

NextMenuAnchor ==
  \/ DOMContentLoaded
  \/ ToggleClick
  \/ \E l \in MenuLinks : MenuAnchorClick(l)

SpecMenuAnchor == InitMenuAnchor /\ [][NextMenuAnchor]_vars

\* C26: a click on an anchor link inside the menu runs the menu's listener
\* and then the smooth-scroll listener: the latter starts with the menu
\* closed and the scroll lock released, so a scroll is never requested while
\* the menu is open.
C26_MenuClosedBeforeScroll ==
  lastOp = "menuAnchorClick" =>
    /\ Len(dispatch) = 2
    /\ dispatch[1].listener = "closeMenu"
    /\ dispatch[1].menuOpen = before.menu.menuOpen
    /\ dispatch[2].listener = "smoothScroll"
    /\ ~dispatch[2].menuOpen
    /\ dispatch[2].bodyOverflow = ""
    /\ ~menuOpen
    /\ bodyOverflow = ""
    /\ NoneMarked(MenuState)

\* C26 witness: with the menu open, a click on a link of the panel to an
\* existing section closed the menu and then requested the scroll.
C26_Witness ==
  /\ lastOp = "menuAnchorClick"
  /\ before.menu.menuOpen
  /\ before.menu.bodyOverflow = "hidden"
  /\ link = [href |-> "#section2", exists |-> TRUE, top |-> 300]
  /\ scrollTo = [called |-> TRUE, top |-> 300 - HeaderOffset]
  /\ defaultPrevented
  /\ ~menuOpen
  /\ bodyOverflow = ""

====
